---- MODULE Spec2Model ----
(***************************************************************************)
(* A model of package singlefleet (src/singlefleet.go): a Fetcher that     *)
(* batches Fetch(id) calls of concurrent goroutines into one call of the   *)
(* Job, and FetchNow, which forces the pending batch to be executed.       *)
(*                                                                         *)
(* Every goroutine makes one call.  A step of the model is one blocking    *)
(* operation of the code (a mutex Lock, a channel send with its receive,   *)
(* the timer firing, a WaitGroup Wait, the call and the return of the Job) *)
(* together with the statements that follow it up to the next one; a       *)
(* critical section that takes a mutex and releases it without blocking in *)
(* between is one step.  Where the code keeps fc.mu locked across a        *)
(* blocking operation, the model does too.                                 *)
(***************************************************************************)
EXTENDS Integers, Sequences, FiniteSets, TLC

\* Number of goroutines that call Fetch, each once.
NumFetch == 3

\* Number of goroutines that call FetchNow, each once.
NumNow == 1

\* maxBatch, the third argument of NewFetcher, is drawn from 1..MaxBatchLimit.
MaxBatchLimit == 3

\* The ids the Fetch calls ask for.
Ids == {"a", "b", "c"}

Fetchers == 1..NumFetch
Nowers == (NumFetch + 1)..(NumFetch + NumNow)
Procs == Fetchers \cup Nowers

\* Go's nil: the nil interface value, the nil error, the nil *batch.
Nil == "nil"

\* The one non-nil error a Job returns.
SomeErr == "error"

\* The ids the data source holds a value for; the others are not found.
Stored == {"a", "c"}

\* The value the data source holds for an id (strings.ToUpper in the tests).
Value(id) == CASE id = "a" -> "A" [] id = "b" -> "B" [] OTHER -> "C"

\* A nil or empty map[string]interface{}: reading any key gives (nil, false).
NoVals == [i \in {} |-> Nil]

Range(s) == {s[i] : i \in 1..Len(s)}

VARIABLES
    maxb,      \* fc.maxb
    mu,        \* fc.mu is locked
    m,         \* fc.m: id -> index of its batch, 0 when the key is absent
    fcb,       \* fc.b: index of the pending batch, 0 when nil
    batches,   \* the batch objects allocated so far, by index
    pc,        \* where each goroutine is in its call, or how it returned
    arg,       \* the id argument of each Fetch call
    bt,        \* the local variable b of each call (fc.b in FetchNow)
    ret,       \* val, ok, err of each Fetch call: what it returned
    nret,      \* what each FetchNow call returned
    jobLog,    \* the invocations of the Job so far: batch and ids argument
    panicked   \* the program has died of a run-time panic

vars ==
    <<maxb, mu, m, fcb, batches, pc, arg, bt, ret, nret, jobLog, panicked>>

\* new(batch) as the opener publishes it: wg.Add(1), ids = [id], csig made.
NewBatch(id) ==
    [ids |-> <<id>>, mu |-> FALSE, wg |-> 1, closed |-> FALSE,
     vals |-> NoVals, err |-> Nil]

\* Result with a slip: the error of the batch is not passed on.
ResultNoErr(b, id) ==
    IF id \in DOMAIN b.vals THEN <<b.vals[id], TRUE, Nil>>
                            ELSE <<Nil, FALSE, Nil>>

\* val, ok = b.vals[id]; return val, ok, b.err
Result(b, id) ==
    IF id \in DOMAIN b.vals THEN <<b.vals[id], TRUE, b.err>>
                            ELSE <<Nil, FALSE, b.err>>

\* NewFetcher: an empty registry, no pending batch, the mutex unlocked.
Init ==
    /\ maxb \in 1..MaxBatchLimit
    /\ mu = FALSE
    /\ m = [i \in Ids |-> 0]
    /\ fcb = 0
    /\ batches = <<>>
    /\ pc = [p \in Procs |-> "idle"]
    /\ arg = [p \in Procs |-> Nil]
    /\ bt = [p \in Procs |-> 0]
    /\ ret = [p \in Fetchers |-> <<Nil, FALSE, Nil>>]
    /\ nret = [p \in Nowers |-> FALSE]
    /\ jobLog = <<>>
    /\ panicked = FALSE

\* The goroutines that call Fetch are interchangeable: they are numbered in
\* the order in which their calls take fc.mu.
Turn(p) == \A q \in Fetchers : q < p => pc[q] # "idle"

\* Fetch(id) finds the id registered: lock, look up fc.m[id], unlock, and go
\* to wait for that batch.
FetchQueued(p) ==
    /\ ~panicked /\ pc[p] = "idle" /\ Turn(p) /\ ~mu
    /\ \E id \in Ids :
          /\ m[id] # 0
          /\ arg' = [arg EXCEPT ![p] = id]
          /\ bt' = [bt EXCEPT ![p] = m[id]]
    /\ pc' = [pc EXCEPT ![p] = "d_wait"]
    /\ UNCHANGED <<maxb, mu, m, fcb, batches, ret, jobLog, panicked, nret>>

\* QueuedReturn with a slip: the call reads the batch without b.wg.Wait().
QueuedReturnNoWait(p) ==
    /\ ~panicked /\ pc[p] = "d_wait"
    /\ ret' = [ret EXCEPT ![p] = Result(batches[bt[p]], arg[p])]
    /\ pc' = [pc EXCEPT ![p] = "q_ret"]
    /\ UNCHANGED <<maxb, mu, m, fcb, batches, arg, bt, nret, jobLog,
                   panicked>>

\* b.wg.Wait() of a call that found its id registered, and its return.
QueuedReturn(p) ==
    /\ ~panicked /\ pc[p] = "d_wait" /\ batches[bt[p]].wg = 0
    /\ ret' = [ret EXCEPT ![p] = Result(batches[bt[p]], arg[p])]
    /\ pc' = [pc EXCEPT ![p] = "q_ret"]
    /\ UNCHANGED <<maxb, mu, m, fcb, batches, arg, bt, jobLog, panicked, nret>>

\* FetchJoin with a slip: the id is added to the pending batch although it
\* is registered already.
FetchJoinNoCheck(p) ==
    /\ ~panicked /\ pc[p] = "idle" /\ Turn(p) /\ ~mu /\ fcb # 0
    /\ \E id \in Ids :
          /\ arg' = [arg EXCEPT ![p] = id]
          /\ m' = [m EXCEPT ![id] = fcb]
    /\ bt' = [bt EXCEPT ![p] = fcb]
    /\ pc' = [pc EXCEPT ![p] = "j_append"]
    /\ UNCHANGED <<maxb, mu, fcb, batches, ret, nret, jobLog, panicked>>

\* Fetch(id) finds a pending batch: lock, register the id to fc.b, unlock.
FetchJoin(p) ==
    /\ ~panicked /\ pc[p] = "idle" /\ Turn(p) /\ ~mu /\ fcb # 0
    /\ \E id \in Ids :
          /\ m[id] = 0
          /\ arg' = [arg EXCEPT ![p] = id]
          /\ m' = [m EXCEPT ![id] = fcb]
    /\ bt' = [bt EXCEPT ![p] = fcb]
    /\ pc' = [pc EXCEPT ![p] = "j_append"]
    /\ UNCHANGED <<maxb, mu, fcb, batches, ret, jobLog, panicked, nret>>

\* b.mu.Lock(); append the id; below maxb also b.mu.Unlock().
JoinAppend(p) ==
    /\ ~panicked /\ pc[p] = "j_append" /\ ~batches[bt[p]].mu
    /\ LET k == bt[p]
           newids == Append(batches[k].ids, arg[p])
           full == Len(newids) >= maxb
       IN /\ batches' = [batches EXCEPT ![k].ids = newids, ![k].mu = full]
          /\ pc' = [pc EXCEPT ![p] = IF full THEN "j_lock" ELSE "j_wait"]
    /\ UNCHANGED <<maxb, mu, m, fcb, arg, bt, ret, jobLog, panicked, nret>>

\* The batch is full: the joiner takes fc.mu to send the signal.
JoinLock(p) ==
    /\ ~panicked /\ pc[p] = "j_lock" /\ ~mu
    /\ mu' = TRUE
    /\ pc' = [pc EXCEPT ![p] = "j_send"]
    /\ UNCHANGED <<maxb, m, fcb, batches, arg, bt, ret, jobLog, panicked,
                   nret>>

\* The opener of batch k is in its select and can receive from b.csig.
Receiver(k) == {q \in Fetchers : pc[q] = "o_select" /\ bt[q] = k}

\* JoinSend with a slip: after the send the joiner unlocks fc.mu itself.
JoinSendUnlock(p) ==
    /\ ~panicked /\ pc[p] = "j_send" /\ ~batches[bt[p]].closed
    /\ \E q \in Receiver(bt[p]) :
          pc' = [pc EXCEPT ![p] = "j_wait", ![q] = "o_detach"]
    /\ batches' = [batches EXCEPT ![bt[p]].mu = FALSE]
    /\ mu' = FALSE
    /\ UNCHANGED <<maxb, m, fcb, arg, bt, ret, jobLog, panicked, nret>>

\* b.csig <- struct{}{} of the joiner meets the opener's <-b.csig (t.Stop());
\* the joiner goes on to b.mu.Unlock(), fc.mu stays locked.
JoinSend(p) ==
    /\ ~panicked /\ pc[p] = "j_send" /\ ~batches[bt[p]].closed
    /\ \E q \in Receiver(bt[p]) :
          pc' = [pc EXCEPT ![p] = "j_wait", ![q] = "o_detach"]
    /\ batches' = [batches EXCEPT ![bt[p]].mu = FALSE]
    /\ UNCHANGED <<maxb, mu, m, fcb, arg, bt, ret, jobLog, panicked, nret>>

\* The joiner's send finds b.csig closed: a send on a closed channel panics,
\* and the program dies.
JoinSendPanic(p) ==
    /\ ~panicked /\ pc[p] = "j_send" /\ batches[bt[p]].closed
    /\ panicked' = TRUE
    /\ UNCHANGED <<maxb, mu, m, fcb, batches, pc, arg, bt, ret, jobLog, nret>>

\* JoinCleanup with a slip: the joiner returns without delete(fc.m, id).
JoinCleanupNoDelete(p) ==
    /\ ~panicked /\ pc[p] = "j_wait" /\ batches[bt[p]].wg = 0 /\ ~mu
    /\ ret' = [ret EXCEPT ![p] = Result(batches[bt[p]], arg[p])]
    /\ pc' = [pc EXCEPT ![p] = "j_ret"]
    /\ UNCHANGED <<maxb, mu, m, fcb, batches, arg, bt, jobLog, panicked,
                   nret>>

\* b.wg.Wait() of a joiner, then its cleanup: lock, delete(fc.m, id),
\* unlock; and its return.
JoinCleanup(p) ==
    /\ ~panicked /\ pc[p] = "j_wait" /\ batches[bt[p]].wg = 0 /\ ~mu
    /\ m' = [m EXCEPT ![arg[p]] = 0]
    /\ ret' = [ret EXCEPT ![p] = Result(batches[bt[p]], arg[p])]
    /\ pc' = [pc EXCEPT ![p] = "j_ret"]
    /\ UNCHANGED <<maxb, mu, fcb, batches, arg, bt, jobLog, panicked, nret>>

\* FetchOpen with a slip: a new batch is made and published although a batch
\* is pending.
FetchOpenOverPending(p) ==
    /\ ~panicked /\ pc[p] = "idle" /\ Turn(p) /\ ~mu
    /\ \E id \in Ids :
          /\ m[id] = 0
          /\ arg' = [arg EXCEPT ![p] = id]
          /\ batches' = Append(batches, NewBatch(id))
          /\ m' = [m EXCEPT ![id] = Len(batches) + 1]
    /\ fcb' = Len(batches) + 1
    /\ bt' = [bt EXCEPT ![p] = Len(batches) + 1]
    /\ pc' = [pc EXCEPT ![p] = "o_select"]
    /\ UNCHANGED <<maxb, mu, ret, jobLog, panicked, nret>>

\* Fetch(id) finds no pending batch: lock, make a batch, publish it as fc.b,
\* register the id, unlock; the opener goes to its select.
FetchOpen(p) ==
    /\ ~panicked /\ pc[p] = "idle" /\ Turn(p) /\ ~mu /\ fcb = 0
    /\ \E id \in Ids :
          /\ m[id] = 0
          /\ arg' = [arg EXCEPT ![p] = id]
          /\ batches' = Append(batches, NewBatch(id))
          /\ m' = [m EXCEPT ![id] = Len(batches) + 1]
    /\ fcb' = Len(batches) + 1
    /\ bt' = [bt EXCEPT ![p] = Len(batches) + 1]
    /\ pc' = [pc EXCEPT ![p] = "o_select"]
    /\ UNCHANGED <<maxb, mu, ret, jobLog, panicked, nret>>

\* The timer fires after maxw and the select takes case <-t.C.
TimerFire(p) ==
    /\ ~panicked /\ pc[p] = "o_select"
    /\ pc' = [pc EXCEPT ![p] = "o_tlock"]
    /\ UNCHANGED <<maxb, mu, m, fcb, batches, arg, bt, ret, jobLog,
                   panicked, nret>>

\* In the timer case: fc.mu.Lock(); close(b.csig).
TimerLock(p) ==
    /\ ~panicked /\ pc[p] = "o_tlock" /\ ~mu
    /\ mu' = TRUE
    /\ batches' = [batches EXCEPT ![bt[p]].closed = TRUE]
    /\ pc' = [pc EXCEPT ![p] = "o_detach"]
    /\ UNCHANGED <<maxb, m, fcb, arg, bt, ret, jobLog, panicked, nret>>

\* Detach with a slip: fc.mu is unlocked and fc.b is left as it is.
DetachKeepSlot(p) ==
    /\ ~panicked /\ pc[p] = "o_detach"
    /\ mu' = FALSE
    /\ panicked' = ~mu
    /\ pc' = [pc EXCEPT ![p] = "o_call"]
    /\ UNCHANGED <<maxb, m, fcb, batches, arg, bt, ret, jobLog, nret>>

\* fc.b = nil; fc.mu.Unlock().  Unlocking an unlocked mutex is fatal.
Detach(p) ==
    /\ ~panicked /\ pc[p] = "o_detach"
    /\ fcb' = 0
    /\ mu' = FALSE
    /\ panicked' = ~mu
    /\ pc' = [pc EXCEPT ![p] = "o_call"]
    /\ UNCHANGED <<maxb, m, batches, arg, bt, ret, jobLog, nret>>

\* doFetch calls fc.f(c.ids): the Job gets the ids the batch holds now.  The
\* read takes no lock, so it sees the list before or after a joiner's append.
JobCall(p) ==
    /\ ~panicked /\ pc[p] = "o_call"
    /\ jobLog' = Append(jobLog, [b |-> bt[p], ids |-> batches[bt[p]].ids])
    /\ pc' = [pc EXCEPT ![p] = "o_injob"]
    /\ UNCHANGED <<maxb, mu, m, fcb, batches, arg, bt, ret, panicked, nret>>

\* The invocations of the Job for batch k, as indexes of jobLog.
JobCalls(k) == {i \in 1..Len(jobLog) : jobLog[i].b = k}

\* The ids argument of the invocation of the Job for batch k.
JobIds(k) == jobLog[CHOOSE i \in JobCalls(k) : TRUE].ids

\* The values the data source holds for ids: some ids are not stored.
Lookup(ids) == [i \in Range(ids) \cap Stored |-> Value(i)]

\* What a Job may return for ids: the values found and no error, or an error
\* with a nil map, or an error with the values found alongside.
JobOutcomes(ids) ==
    {[vals |-> Lookup(ids), err |-> Nil],
     [vals |-> NoVals, err |-> SomeErr],
     [vals |-> Lookup(ids), err |-> SomeErr]}

\* The Job returns, doFetch stores c.vals, c.err, and b.wg.Done() releases
\* every waiter of the batch.
JobReturn(p) ==
    /\ ~panicked /\ pc[p] = "o_injob"
    /\ \E out \in JobOutcomes(JobIds(bt[p])) :
          batches' = [batches EXCEPT ![bt[p]].vals = out.vals,
                                     ![bt[p]].err = out.err,
                                     ![bt[p]].wg = 0]
    /\ pc' = [pc EXCEPT ![p] = "o_cleanup"]
    /\ UNCHANGED <<maxb, mu, m, fcb, arg, bt, ret, jobLog, panicked, nret>>

\* OpenCleanup with a slip: the opener returns without delete(fc.m, id).
OpenCleanupNoDelete(p) ==
    /\ ~panicked /\ pc[p] = "o_cleanup" /\ ~mu
    /\ ret' = [ret EXCEPT ![p] = Result(batches[bt[p]], arg[p])]
    /\ pc' = [pc EXCEPT ![p] = "o_ret"]
    /\ UNCHANGED <<maxb, mu, m, fcb, batches, arg, bt, jobLog, panicked,
                   nret>>

\* Cleanup of the opener: lock, delete(fc.m, id), unlock; then return.
OpenCleanup(p) ==
    /\ ~panicked /\ pc[p] = "o_cleanup" /\ ~mu
    /\ m' = [m EXCEPT ![arg[p]] = 0]
    /\ ret' = [ret EXCEPT ![p] = Result(batches[bt[p]], arg[p])]
    /\ pc' = [pc EXCEPT ![p] = "o_ret"]
    /\ UNCHANGED <<maxb, mu, fcb, batches, arg, bt, jobLog, panicked, nret>>

\* NowNoBatch with a slip: it returns false without fc.mu.Unlock().
NowNoBatchKeepLock(p) ==
    /\ ~panicked /\ pc[p] = "idle" /\ ~mu /\ fcb = 0
    /\ mu' = TRUE
    /\ nret' = [nret EXCEPT ![p] = FALSE]
    /\ pc' = [pc EXCEPT ![p] = "n_ret"]
    /\ UNCHANGED <<maxb, m, fcb, batches, arg, bt, ret, jobLog, panicked>>

\* FetchNow finds no pending batch: lock, unlock, return false.
NowNoBatch(p) ==
    /\ ~panicked /\ pc[p] = "idle" /\ ~mu /\ fcb = 0
    /\ mu' = FALSE
    /\ nret' = [nret EXCEPT ![p] = FALSE]
    /\ pc' = [pc EXCEPT ![p] = "n_ret"]
    /\ UNCHANGED <<maxb, m, fcb, batches, arg, bt, ret, jobLog, panicked>>

\* FetchNow finds a pending batch: it goes to send on fc.b.csig with fc.mu
\* locked.
NowPending(p) ==
    /\ ~panicked /\ pc[p] = "idle" /\ ~mu /\ fcb # 0
    /\ mu' = TRUE
    /\ bt' = [bt EXCEPT ![p] = fcb]
    /\ pc' = [pc EXCEPT ![p] = "n_send"]
    /\ UNCHANGED <<maxb, m, fcb, batches, arg, ret, nret, jobLog, panicked>>

\* NowSend with a slip: the send does not wait for the opener to receive
\* (a select with a default case), and FetchNow returns true all the same.
NowSendNoWait(p) ==
    /\ ~panicked /\ pc[p] = "n_send"
    /\ pc' = [pc EXCEPT ![p] = "n_ret"]
    /\ nret' = [nret EXCEPT ![p] = TRUE]
    /\ mu' = FALSE
    /\ UNCHANGED <<maxb, m, fcb, batches, arg, bt, ret, jobLog, panicked>>

\* fc.b.csig <- struct{}{} meets the opener's <-b.csig (t.Stop()); FetchNow
\* returns true with fc.mu still locked.  On a closed channel the send panics.
NowSend(p) ==
    /\ ~panicked /\ pc[p] = "n_send"
    /\ IF batches[bt[p]].closed
       THEN /\ panicked' = TRUE
            /\ UNCHANGED <<pc, nret>>
       ELSE /\ \E q \in Receiver(bt[p]) :
                  pc' = [pc EXCEPT ![p] = "n_ret", ![q] = "o_detach"]
            /\ nret' = [nret EXCEPT ![p] = TRUE]
            /\ UNCHANGED panicked
    /\ UNCHANGED <<maxb, mu, m, fcb, batches, arg, bt, ret, jobLog>>

FetchStep(p) ==
    \/ FetchQueued(p) \/ QueuedReturn(p)
    \/ FetchJoin(p) \/ JoinAppend(p) \/ JoinLock(p) \/ JoinSend(p)
    \/ JoinSendPanic(p) \/ JoinCleanup(p)
    \/ FetchOpen(p) \/ TimerFire(p) \/ TimerLock(p) \/ Detach(p)
    \/ JobCall(p) \/ JobReturn(p) \/ OpenCleanup(p)

NowStep(p) ==
    \/ NowNoBatch(p) \/ NowPending(p) \/ NowSend(p)

Next ==
    \/ \E p \in Fetchers : FetchStep(p)
    \/ \E p \in Nowers : NowStep(p)

Spec == Init /\ [][Next]_vars

\* Fair scheduling: a goroutine that can take a step eventually takes one.
\* Every goroutine takes finitely many steps, so weak fairness is all that a
\* fair mutex and a fair scheduler add here.
Fairness ==
    /\ \A p \in Fetchers : WF_vars(FetchStep(p))
    /\ \A p \in Nowers : WF_vars(NowStep(p))

FairSpec == Init /\ [][Next]_vars /\ Fairness

(***************************************************************************)
(* What the properties below speak of.                                     *)
(***************************************************************************)

\* The Fetch call of p has returned.
Returned(p) == pc[p] \in {"q_ret", "j_ret", "o_ret"}

\* The call of p registered its id itself, as the opener or as a joiner of
\* batch bt[p] (it did not find the id registered).
Registrant(p) ==
    pc[p] \in {"o_select", "o_tlock", "o_detach", "o_call", "o_injob",
               "o_cleanup", "o_ret", "j_append", "j_lock", "j_send",
               "j_wait", "j_ret"}

\* The invocation of the Job for batch k has returned.
JobReturned(k) ==
    \E o \in Fetchers : bt[o] = k /\ pc[o] \in {"o_cleanup", "o_ret"}

\* How often x occurs in the sequence s.
Occ(s, x) == Cardinality({i \in 1..Len(s) : s[i] = x})

\* b.vals[id] as Go reads a map.
MapRead(vals, id) ==
    IF id \in DOMAIN vals THEN <<vals[id], TRUE>> ELSE <<Nil, FALSE>>

(***************************************************************************)
(* C1.  Coalescing of identical ids.                                       *)
(***************************************************************************)

\* C1: a Fetch(id) call that finds id registered by a call in flight opens
\* no batch and adds id to no batch; id is passed to the Job in exactly one
\* invocation, that of the batch both calls are served by; and the two calls
\* return the same (value, found, error).
CoalesceIdentical ==
    \A q \in Fetchers :
        pc[q] \in {"d_wait", "q_ret"} =>
            LET k == bt[q]
                id == arg[q]
                firsts == {p \in Fetchers \ {q} :
                              Registrant(p) /\ arg[p] = id /\ bt[p] = k}
            IN /\ firsts # {}
               /\ \A j \in DOMAIN batches :
                     Occ(batches[j].ids, id) <=
                        Cardinality({p \in Fetchers :
                            Registrant(p) /\ arg[p] = id /\ bt[p] = j})
               /\ pc[q] = "q_ret" =>
                     /\ Cardinality({i \in JobCalls(k) :
                                        id \in Range(jobLog[i].ids)}) = 1
                     /\ \A p \in firsts : Returned(p) => ret[p] = ret[q]

(***************************************************************************)
(* C2.  Result relay.                                                      *)
(***************************************************************************)

\* C2: a Fetch(id) call returns only after the Job invocation of its batch
\* has returned; it returns the error the Job returned, and when that is nil
\* it returns (vals[id], true, nil) if id is a key of the map the Job
\* returned and (nil, false, nil) otherwise, so all calls of a batch read the
\* same map and the same error.
ResultRelay ==
    \A p \in Fetchers :
        Returned(p) =>
            LET k == bt[p]
                b == batches[k]
            IN /\ JobReturned(k)
               /\ Cardinality(JobCalls(k)) = 1
               /\ \E out \in JobOutcomes(JobIds(k)) :
                     out.vals = b.vals /\ out.err = b.err
               /\ ret[p][3] = b.err
               /\ b.err = Nil =>
                     ret[p] = IF arg[p] \in DOMAIN b.vals
                                 THEN <<b.vals[arg[p]], TRUE, Nil>>
                                 ELSE <<Nil, FALSE, Nil>>

\* Two calls of one batch have returned without error, one with a value and
\* one for an id the Job was asked for and did not find.
ResultRelayWitness ==
    \E p, q \in Fetchers :
        /\ p # q /\ Returned(p) /\ Returned(q) /\ bt[p] = bt[q]
        /\ ret[p] = <<Value(arg[p]), TRUE, Nil>>
        /\ ret[q] = <<Nil, FALSE, Nil>>
        /\ arg[q] \in Range(JobIds(bt[q]))

(***************************************************************************)
(* C3.  Errors of the Job.                                                 *)
(***************************************************************************)

NoRequestDropped ==
    \A p \in Fetchers :
        Returned(p) =>
            /\ Cardinality(JobCalls(bt[p])) = 1
            /\ arg[p] \in Range(JobIds(bt[p]))

(***************************************************************************)
(* C5.  One batch below the size bound.                                    *)
(***************************************************************************)

\* The calls that registered their id to batch k: they entered Fetch while k
\* was the pending batch.
Entered(k) == {p \in Fetchers : Registrant(p) /\ bt[p] = k}

\* C5: when fewer than maxb calls with distinct ids entered Fetch while a
\* batch was pending and the batch was sealed by its timer, the Job is
\* invoked once for it, with exactly the ids of those calls.
SingleBatchBelowBound ==
    \A k \in DOMAIN batches :
        (/\ batches[k].closed
         /\ JobCalls(k) # {}
         /\ Cardinality(Entered(k)) < maxb) =>
            /\ Cardinality(JobCalls(k)) = 1
            /\ Range(JobIds(k)) = {arg[p] : p \in Entered(k)}
            /\ Len(JobIds(k)) = Cardinality(Entered(k))

(***************************************************************************)
(* C6.  Unique ids.                                                        *)
(***************************************************************************)

\* The Job has not yet returned for batch k.
Unfinished(k) == batches[k].wg # 0

\* C6: no invocation of the Job gets an id twice, and no id is in the id
\* lists of two batches that are both unfinished.
UniqueIds ==
    /\ \A i \in DOMAIN jobLog :
          \A id \in Ids : Occ(jobLog[i].ids, id) <= 1
    /\ \A j, k \in DOMAIN batches :
          (j # k /\ Unfinished(j) /\ Unfinished(k)) =>
              Range(batches[j].ids) \cap Range(batches[k].ids) = {}

\* The Job was invoked with two ids for a batch that a repeated request for
\* one of them waited on, while a second batch was unfinished as well.
UniqueIdsWitness ==
    \E i \in DOMAIN jobLog, q \in Fetchers :
        /\ Len(jobLog[i].ids) >= 2
        /\ pc[q] \in {"d_wait", "q_ret"}
        /\ bt[q] = jobLog[i].b
        /\ arg[q] \in Range(jobLog[i].ids)

\* Two batches are unfinished at the same time.
TwoUnfinished ==
    \E j, k \in DOMAIN batches : j # k /\ Unfinished(j) /\ Unfinished(k)

(***************************************************************************)
(* C7.  Batch size.                                                        *)
(***************************************************************************)

\* C7: no invocation of the Job gets more than maxb ids.
BatchSizeBound ==
    \A i \in DOMAIN jobLog : Len(jobLog[i].ids) <= maxb

(***************************************************************************)
(* C8.  FetchNow without a pending batch.                                  *)
(***************************************************************************)

\* FetchNow of p returns false in this step.
ReturnsFalse(p) == pc[p] = "idle" /\ pc'[p] = "n_ret" /\ nret'[p] = FALSE

\* C8: a FetchNow call returns false exactly when it finds no pending batch,
\* and then it changes nothing: registry, fc.b, every batch and the Job's
\* invocations are as before, and fc.mu is unlocked when it returns.
FetchNowNoBatch ==
    [][\A p \in Nowers :
          /\ ReturnsFalse(p) =>
                /\ fcb = 0
                /\ ~mu'
                /\ UNCHANGED <<m, fcb, batches, jobLog, panicked>>
          /\ (pc[p] = "idle" /\ pc'[p] # "idle" /\ fcb = 0) => ReturnsFalse(p)
      ]_vars

\* FetchNow has returned false while ids of an earlier batch, no longer
\* pending, are still registered.
FetchNowFalseWitness ==
    \E p \in Nowers :
        /\ pc[p] = "n_ret" /\ nret[p] = FALSE
        /\ ~mu /\ fcb = 0
        /\ \E id \in Ids : m[id] # 0

(***************************************************************************)
(* C9.  FetchNow with a pending batch.                                     *)
(***************************************************************************)

\* FetchNow of p has returned true.
ReturnedTrue(p) == pc[p] = "n_ret" /\ nret[p] = TRUE

\* C9: once FetchNow has returned true, the opener of the batch that was
\* pending has left its select by the signal, not by the timer, whatever the
\* number of ids in the batch, and has invoked the Job or is on its way to
\* the invocation with no wait left before it; while the batch is still fc.b
\* the opener is about to clear fc.b and fc.mu is locked, so that no Fetch
\* call that starts afterwards is added to that batch.
FetchNowSeals ==
    /\ [](\A p \in Nowers :
            ReturnedTrue(p) =>
                /\ \E o \in Fetchers :
                      /\ bt[o] = bt[p]
                      /\ \/ pc[o] \in {"o_detach", "o_call"}
                         \/ JobCalls(bt[p]) # {}
                /\ ~batches[bt[p]].closed
                /\ fcb = bt[p] =>
                      /\ mu
                      /\ \E o \in Fetchers : bt[o] = fcb /\ pc[o] = "o_detach")
    /\ [][\A p \in Nowers :
            ReturnedTrue(p) =>
                \A q \in Fetchers :
                    /\ (pc[q] = "idle" /\ pc'[q] = "j_append")
                          => bt'[q] # bt[p]
                    /\ (pc[q] = "idle" /\ pc'[q] # "idle")
                          => batches'[bt[p]] = batches[bt[p]]
                    /\ \A id \in Ids :
                          m'[id] = bt[p] => m[id] = bt[p]
         ]_vars

\* FetchNow has returned true for a batch that holds fewer than maxb ids,
\* the Job has been invoked for it, and a Fetch call that started afterwards
\* was put into a new batch.
FetchNowTrueWitness ==
    \E p \in Nowers, q \in Fetchers :
        /\ ReturnedTrue(p)
        /\ JobCalls(bt[p]) # {}
        /\ Len(batches[bt[p]].ids) < maxb
        /\ Registrant(q) /\ bt[q] > bt[p]

(***************************************************************************)
(* C10.  FetchNow returns.                                                 *)
(***************************************************************************)

\* C10: under fair scheduling, a FetchNow call that found a pending batch
\* and is sending its signal eventually returns.
FetchNowReturns ==
    \A p \in Nowers : (pc[p] = "n_send") ~> (pc[p] = "n_ret")

(***************************************************************************)
(* C11.  Every Fetch call returns.                                         *)
(***************************************************************************)

\* The Fetch call of p has started and has not returned.
InFlight(p) == pc[p] # "idle" /\ ~Returned(p)

\* C11: the program never reaches a state in which a Fetch call is blocked
\* and no step can release it: whenever a Fetch call is in flight some
\* goroutine can take a step.  Stated for the runs in which no FetchNow call
\* was made and nothing has panicked.
NoStuckFetch ==
    (/\ ~panicked
     /\ \A n \in Nowers : pc[n] = "idle"
     /\ \E p \in Fetchers : InFlight(p)) => ENABLED Next

(***************************************************************************)
(* C12.  The seal signal.                                                  *)
(***************************************************************************)

\* The call of p stands at its send on the csig of batch bt[p].
Sending(p) == pc[p] \in {"j_send", "n_send"}

\* C12: no send is attempted on the csig of a batch after it has been
\* closed, and no step of the program panics.
SealPanicFree ==
    /\ ~panicked
    /\ \A p \in Procs : Sending(p) => ~batches[bt[p]].closed

(***************************************************************************)
(* C13.  Sealing by size.                                                  *)
(***************************************************************************)

\* The calls that will seal batch k by its size: they appended the id that
\* made len(b.ids) >= fc.maxb and are on their way to the send on b.csig.
SizeSignallers(k) ==
    {j \in Fetchers : bt[j] = k /\ pc[j] \in {"j_lock", "j_send"}}

\* C13: whenever a batch that waits to be sealed holds maxb ids or more, a
\* call is under way to seal it by its size, so that neither the timer nor
\* FetchNow is needed; this includes the batch that holds maxb ids from its
\* creation (maxb = 1).
ThresholdSeals ==
    \A o \in Fetchers :
        (pc[o] = "o_select" /\ Len(batches[bt[o]].ids) >= maxb) =>
            SizeSignallers(bt[o]) # {}

(***************************************************************************)
(* C14.  The ids of a sealed batch.                                        *)
(***************************************************************************)

\* The opener o has left its select and cleared fc.b: its batch is sealed
\* and detached, and the Job is about to be called, running or done.
Detached(o) == pc[o] \in {"o_call", "o_injob", "o_cleanup", "o_ret"}

\* C14: once the opener of a batch has left its select and detached the
\* batch, no step changes the id list of the batch: no Fetch call appends to
\* it, and the list the Job reads is not modified during or after the call.
FrozenOnceSealed ==
    [][\A o \in Fetchers :
          Detached(o) => batches'[bt[o]].ids = batches[bt[o]].ids]_vars

(***************************************************************************)
(* C15.  One pending batch.                                                *)
(***************************************************************************)

\* The opener o has not yet cleared fc.b: its batch is the pending one.
Pending(o) == pc[o] \in {"o_select", "o_tlock", "o_detach"}

\* C15: fc.b is nil or a batch whose Job has not been invoked, and it is the
\* batch of the one opener that has not detached yet; fc.b is set only when
\* it is nil, and to a batch made in that step; it is cleared only by the
\* opener of the batch it holds; and a call registers its id only to the
\* batch that is fc.b, so never to a batch that was detached.
OnePendingBatch ==
    /\ [](/\ fcb = 0 \/ (fcb \in DOMAIN batches /\ JobCalls(fcb) = {})
          /\ \A o \in Fetchers : Pending(o) => bt[o] = fcb
          /\ fcb # 0 => \E o \in Fetchers : Pending(o)
          /\ Cardinality({o \in Fetchers : Pending(o)}) <= 1)
    /\ [][/\ (fcb' # fcb /\ fcb' # 0) =>
                /\ fcb = 0
                /\ fcb' = Len(batches) + 1
                /\ Len(batches') = Len(batches) + 1
          /\ (fcb' # fcb /\ fcb # 0) =>
                /\ fcb' = 0
                /\ \E o \in Fetchers :
                      bt[o] = fcb /\ pc[o] = "o_detach" /\ pc'[o] = "o_call"
          /\ \A id \in Ids :
                (m'[id] # m[id] /\ m'[id] # 0) => m'[id] = fcb'
          /\ \A q \in Fetchers :
                (pc[q] = "idle" /\ pc'[q] \in {"j_append", "o_select"}) =>
                    (fcb' # 0 /\ bt'[q] = fcb')
         ]_vars

\* A batch is pending and a call has joined it while the Job of an earlier
\* batch, detached before, has been invoked.
OnePendingWitness ==
    \E q \in Fetchers, k \in DOMAIN batches :
        /\ fcb # 0 /\ k < fcb
        /\ JobCalls(k) # {}
        /\ pc[q] \in {"j_append", "j_wait"} /\ bt[q] = fcb

(***************************************************************************)
(* C16.  Invocations of the Job in progress.                               *)
(***************************************************************************)

\* The openers whose call of the Job is in progress.
InJob == {o \in Fetchers : pc[o] = "o_injob"}

\* C16 as claimed: at most one invocation of the Job is in progress at any
\* instant.
JobsNeverOverlap == Cardinality(InJob) <= 1

\* C16: the Job is invoked at most once for a batch, by the opener of the
\* batch and after the batch was detached from fc.b, so at any instant at
\* most one invocation is in progress for a batch and none for the pending
\* batch; invocations for different batches are not kept apart.
OneJobPerBatch ==
    /\ [](/\ \A k \in DOMAIN batches : Cardinality(JobCalls(k)) <= 1
          /\ \A o, q \in InJob : bt[o] = bt[q] => o = q
          /\ \A o \in InJob :
                /\ fcb # bt[o]
                /\ JobCalls(bt[o]) # {}
                /\ Unfinished(bt[o])
          /\ Cardinality(InJob) <= Len(batches) - (IF fcb = 0 THEN 0 ELSE 1))
    /\ [][jobLog' # jobLog =>
             \E o \in Fetchers :
                /\ pc[o] = "o_call" /\ pc'[o] = "o_injob"
                /\ fcb # bt[o]
                /\ JobCalls(bt[o]) = {}
                /\ jobLog' = Append(jobLog, [b |-> bt[o],
                                             ids |-> batches[bt[o]].ids])
         ]_vars

\* The invocations of the Job for two batches are in progress at once, while
\* a third batch is pending.
JobsOverlapWitness ==
    \E o, q \in InJob : o # q /\ bt[o] # bt[q] /\ fcb \notin {0, bt[o], bt[q]}

(***************************************************************************)
(* C17.  Who deletes registry entries.                                     *)
(***************************************************************************)

\* The calls that registered id to batch k and have not returned.
Owners(id, k) ==
    {p \in Fetchers :
        Registrant(p) /\ ~Returned(p) /\ arg[p] = id /\ bt[p] = k}

\* C17 as claimed: when the opener of a batch has returned, the registry
\* holds no entry for an id of the batch.  Stated for the ids the Job was
\* given and for batches that stayed below maxb ids.
OpenerPurgesBatch ==
    \A o \in Fetchers :
        (pc[o] = "o_ret" /\ Len(batches[bt[o]].ids) < maxb) =>
            \A id \in Range(JobIds(bt[o])) : m[id] # bt[o]

\* C17: every call that registered an id, the opener and each joiner alike,
\* deletes the entry of its own id, and no other, as it returns; a call that
\* found its id registered deletes nothing.  So an entry is in the registry
\* only while the call that made it has not returned, and a Fetch(id) call
\* is served from a batch through the registry only while the call that
\* registered id to that batch has not returned.
OwnerCleansUp ==
    /\ [](\A id \in Ids : m[id] # 0 => Owners(id, m[id]) # {})
    /\ [][/\ \A id \in Ids :
                (m[id] # 0 /\ m'[id] # m[id]) =>
                    /\ m'[id] = 0
                    /\ \E p \in Owners(id, m[id]) :
                          /\ pc[p] \in {"j_wait", "o_cleanup"}
                          /\ Returned(p)'
                          /\ \A i \in Ids \ {id} : m'[i] = m[i]
          /\ \A p \in Fetchers :
                (pc[p] \in {"j_wait", "o_cleanup"} /\ Returned(p)') =>
                    (m[arg[p]] = bt[p] /\ m'[arg[p]] = 0)
          /\ \A q \in Fetchers :
                (pc[q] = "idle" /\ pc'[q] = "d_wait") =>
                    (m' = m /\ Owners(arg'[q], bt'[q]) # {})
          /\ \A q \in Fetchers :
                (pc[q] = "d_wait" /\ pc'[q] # "d_wait") => m' = m
         ]_vars

\* The opener of a batch has returned, the entry of a joiner of the batch is
\* still in the registry, and a call that asked for the joiner's id waits on
\* or was served from that batch.
OwnerCleansUpWitness ==
    \E o, j, q \in Fetchers :
        /\ pc[o] = "o_ret" /\ pc[j] = "j_wait" /\ bt[j] = bt[o]
        /\ m[arg[j]] = bt[o]
        /\ pc[q] \in {"d_wait", "q_ret"}
        /\ arg[q] = arg[j] /\ bt[q] = bt[o]

(***************************************************************************)
(* C18.  fc.mu and blocking operations.                                    *)
(***************************************************************************)

\* The call of p has locked fc.mu and stands at its send on csig with no
\* opener ready to receive: it is blocked with fc.mu locked.
BlockedInSend(p) ==
    Sending(p) /\ mu /\ ~batches[bt[p]].closed /\ Receiver(bt[p]) = {}

\* C18: no call is blocked in the send of the seal signal while it holds
\* fc.mu.
NoLockAcrossSend == \A p \in Procs : ~BlockedInSend(p)

(***************************************************************************)
(* C19.  No registry entry is left behind.                                 *)
(***************************************************************************)

\* No Fetch call is in progress: every call that started has returned.
Quiescent == \A p \in Fetchers : ~InFlight(p)

\* C19: whenever no Fetch call is in progress, the registry is empty and
\* fc.b is nil.
NoRegistryLeak ==
    Quiescent => (fcb = 0 /\ \A id \in Ids : m[id] = 0)

\* An opener, a joiner and a call that found its id registered have been
\* served by one batch that FetchNow sealed, every Fetch call has returned,
\* and the registry and fc.b are empty.
NoRegistryLeakWitness ==
    /\ Quiescent
    /\ \E o, j, q \in Fetchers, n \in Nowers :
          /\ pc[o] = "o_ret" /\ pc[j] = "j_ret" /\ pc[q] = "q_ret"
          /\ bt[o] = bt[j] /\ bt[j] = bt[q]
          /\ ReturnedTrue(n) /\ bt[n] = bt[o]
    /\ fcb = 0 /\ \A id \in Ids : m[id] = 0

(***************************************************************************)
(* C20.  The hand-off of fc.mu.                                            *)
(***************************************************************************)

\* The calls that an acquisition of fc.mu is charged to with its unlock still
\* to come: a sender that locked fc.mu and has not delivered its signal, and
\* the opener between leaving its select with fc.mu locked (by itself in the
\* timer case, by the sender of the signal it received) and its unlock.
LockDebtors == {p \in Procs : Sending(p) \/ pc[p] = "o_detach"}

\* The opener o unlocks fc.mu after its select in this step.
OpenerUnlocks(o) == pc[o] = "o_detach" /\ pc'[o] = "o_call"

\* The sender p delivers its signal in this step and goes on.
Delivers(p) == Sending(p) /\ pc'[p] \in {"j_wait", "n_ret"}

\* C20: fc.mu is never unlocked while it is not locked.  It is locked
\* between critical sections exactly when one call has an unlock to come,
\* never two; the opener's unlock after its select finds fc.mu locked, by
\* the opener itself when csig was closed by its timer and by the sender of
\* the signal otherwise; and the sender leaves fc.mu locked when its signal
\* is delivered, handing it to the opener that received it.
LockHandOff ==
    /\ [](/\ mu <=> LockDebtors # {}
          /\ Cardinality(LockDebtors) <= 1)
    /\ [][/\ \A o \in Fetchers :
                OpenerUnlocks(o) => (mu /\ ~mu' /\ ~panicked')
          /\ \A p \in Procs :
                Delivers(p) =>
                    /\ mu /\ mu'
                    /\ \E o \in Fetchers :
                          /\ bt[o] = bt[p]
                          /\ pc[o] = "o_select" /\ pc'[o] = "o_detach"
          /\ \A o \in Fetchers :
                (pc[o] # "o_detach" /\ pc'[o] = "o_detach") =>
                    /\ mu'
                    /\ \/ pc[o] = "o_tlock" /\ ~mu
                       \/ \E p \in Procs : Delivers(p) /\ bt[p] = bt[o]
         ]_vars

\* One batch was sealed by the signal of a joiner that filled it and another
\* by its timer, and the openers of both have unlocked fc.mu.
LockHandOffWitness ==
    \E o, t, j \in Fetchers :
        /\ Detached(o) /\ Detached(t) /\ bt[o] # bt[t]
        /\ ~batches[bt[o]].closed /\ batches[bt[t]].closed
        /\ pc[j] \in {"j_wait", "j_ret"} /\ bt[j] = bt[o]
        /\ Len(batches[bt[o]].ids) >= maxb
        /\ \A n \in Nowers : ~ReturnedTrue(n)
        /\ ~panicked

====
